---- MODULE Spec2Model ----
(***************************************************************************)
(* A model of improter.py: the bulk importer that creates one Weblink per  *)
(* matched file through POST /save-weblink and throttles itself with       *)
(* rate_sleep.                                                             *)
(*                                                                         *)
(* Strings.  A Python str is modelled as a run-length encoded sequence of  *)
(* runs <<c, n>> (character c repeated n >= 1 times) in canonical form:    *)
(* adjacent runs carry different characters, so that equality of the       *)
(* encodings is equality of the strings.  This keeps the program's real    *)
(* caps (200,000 / 1,000 / 500 characters) in the model.  A character is   *)
(* an atom written as a TLA+ string; U+2026 is the atom Ellipsis.          *)
(***************************************************************************)
EXTENDS Integers, Sequences, FiniteSets, TLC

\* ------------------------------------------------------------------ bounds

\* The largest number of paths the glob matches in one run.
MaxMatches == 3

\* ------------------------------------------------------- program constants

MDTEXT_CAP == 200000
TITLE_CAP == 500
DESC_CAP == 1000

\* ----------------------------------------------------------------- strings

Ellipsis == "U+2026"

\* The characters str.strip() and int() treat as whitespace (those used here).
Whitespace == {" ", "\n", "\t"}

Digits == <<"0", "1", "2", "3", "4", "5", "6", "7", "8", "9">>

UpperCase == <<"A", "B", "C", "D", "E", "F", "G", "H", "I", "J", "K", "L", "M",
               "N", "O", "P", "Q", "R", "S", "T", "U", "V", "W", "X", "Y", "Z">>

LowerCase == <<"a", "b", "c", "d", "e", "f", "g", "h", "i", "j", "k", "l", "m",
               "n", "o", "p", "q", "r", "s", "t", "u", "v", "w", "x", "y", "z">>

\* The characters of the model in code point order (the order sorted() uses).
Alphabet == <<"\t", "\n", " ", "#", "+", "-", ".", "/">> \o Digits \o <<":">>
            \o UpperCase \o <<"_">> \o LowerCase \o <<Ellipsis>>

Ord(c) == CHOOSE i \in 1..Len(Alphabet) : Alphabet[i] = c

\* len(s)
RECURSIVE StrLen(_)
StrLen(s) == IF s = <<>> THEN 0 ELSE s[1][2] + StrLen(Tail(s))

\* a + b
Cat(a, b) ==
    IF a = <<>> THEN b
    ELSE IF b = <<>> THEN a
    ELSE IF a[Len(a)][1] = b[1][1]
         THEN SubSeq(a, 1, Len(a) - 1)
              \o <<<<b[1][1], a[Len(a)][2] + b[1][2]>>>>
              \o Tail(b)
         ELSE a \o b

\* The str made of the characters of the tuple cs, in order.
RECURSIVE Lit(_)
Lit(cs) == IF cs = <<>> THEN <<>>
           ELSE Cat(Lit(SubSeq(cs, 1, Len(cs) - 1)), <<<<cs[Len(cs)], 1>>>>)

\* c * n
Rep(c, n) == IF n <= 0 THEN <<>> ELSE <<<<c, n>>>>

\* s[:k] for k >= 0
RECURSIVE Take(_, _)
Take(s, k) ==
    IF k <= 0 \/ s = <<>> THEN <<>>
    ELSE IF s[1][2] >= k THEN <<<<s[1][1], k>>>>
    ELSE <<s[1]>> \o Take(Tail(s), k - s[1][2])

\* s[i-1] (the i-th character, i in 1..len(s))
RECURSIVE CharAt(_, _)
CharAt(s, i) == IF i <= s[1][2] THEN s[1][1] ELSE CharAt(Tail(s), i - s[1][2])

\* The characters of s as a tuple (short strings only).
RECURSIVE Expand(_)
Expand(s) ==
    IF s = <<>> THEN <<>>
    ELSE [i \in 1..s[1][2] |-> s[1][1]] \o Expand(Tail(s))

RECURSIVE LStrip(_)
LStrip(s) == IF s # <<>> /\ s[1][1] \in Whitespace THEN LStrip(Tail(s)) ELSE s

RECURSIVE RStrip(_)
RStrip(s) == IF s # <<>> /\ s[Len(s)][1] \in Whitespace
             THEN RStrip(SubSeq(s, 1, Len(s) - 1)) ELSE s

\* Mutant of Strip: the content is used as read, whitespace kept.
Strip_Identity(s) == s

\* s.strip()
Strip(s) == RStrip(LStrip(s))

LowerChar(c) == IF \E i \in 1..26 : UpperCase[i] = c
                THEN LowerCase[CHOOSE i \in 1..26 : UpperCase[i] = c]
                ELSE c

\* s.lower()
RECURSIVE Lower(_)
Lower(s) == IF s = <<>> THEN <<>>
            ELSE Cat(Lower(SubSeq(s, 1, Len(s) - 1)),
                     <<<<LowerChar(s[Len(s)][1]), s[Len(s)][2]>>>>)

\* s.rfind(c) + 1: the position of the last c in s, 0 when there is none.
RECURSIVE RFind(_, _)
RFind(s, c) ==
    IF s = <<>> THEN 0
    ELSE IF s[Len(s)][1] = c THEN StrLen(s)
    ELSE RFind(SubSeq(s, 1, Len(s) - 1), c)

\* a < b for two str, as Python compares them: by code point, then by length.
RECURSIVE SeqLess(_, _)
SeqLess(a, b) ==
    IF b = <<>> THEN FALSE
    ELSE IF a = <<>> THEN TRUE
    ELSE IF a[1] # b[1] THEN Ord(a[1]) < Ord(b[1])
    ELSE SeqLess(Tail(a), Tail(b))

StrLess(a, b) == SeqLess(Expand(a), Expand(b))

\* ------------------------------------------------------------------- int()

IsDigit(c) == \E i \in 1..10 : Digits[i] = c

DigitVal(c) == (CHOOSE i \in 1..10 : Digits[i] = c) - 1

\* The value of a tuple of digits and underscores, underscores ignored.
RECURSIVE DigitsVal(_)
DigitsVal(cs) ==
    IF cs = <<>> THEN 0
    ELSE IF cs[Len(cs)] = "_" THEN DigitsVal(SubSeq(cs, 1, Len(cs) - 1))
    ELSE 10 * DigitsVal(SubSeq(cs, 1, Len(cs) - 1)) + DigitVal(cs[Len(cs)])

\* A decimal literal as int() accepts it after the sign: digits, with single
\* underscores between digits only.
IsDecimal(cs) ==
    /\ cs # <<>>
    /\ \A i \in 1..Len(cs) :
          \/ IsDigit(cs[i])
          \/ cs[i] = "_" /\ 1 < i /\ i < Len(cs)
                         /\ IsDigit(cs[i - 1]) /\ IsDigit(cs[i + 1])

\* int(s): [ok |-> FALSE] stands for ValueError.
ParseInt(s) ==
    LET cs == Expand(Strip(s))
        signed == cs # <<>> /\ cs[1] \in {"+", "-"}
        body == IF signed THEN Tail(cs) ELSE cs
    IN  IF IsDecimal(body)
        THEN [ok |-> TRUE,
              val |-> IF signed /\ cs[1] = "-" THEN 0 - DigitsVal(body)
                      ELSE DigitsVal(body)]
        ELSE [ok |-> FALSE, val |-> 0]

\* ------------------------------------------------------------------- clamp

Max(a, b) == IF a >= b THEN a ELSE b

\* Mutant of clamp: the cut keeps cap characters before the ellipsis.
clamp_OffByOne(s, cap) ==
    IF StrLen(s) <= cap THEN s
    ELSE Cat(Take(s, cap), Lit(<<Ellipsis>>))

\* Lines 80-83.
clamp(s, cap) ==
    IF StrLen(s) <= cap THEN s
    ELSE Cat(Take(s, Max(0, cap - 1)), Lit(<<Ellipsis>>))

\* ------------------------------------------------------------------- str()

RECURSIVE NatToStr(_)
NatToStr(n) == IF n < 10 THEN Lit(<<Digits[n + 1]>>)
               ELSE Cat(NatToStr(n \div 10), Lit(<<Digits[(n % 10) + 1]>>))

\* str(n) for an int n
IntToStr(n) == IF n < 0 THEN Cat(Lit(<<"-">>), NatToStr(0 - n)) ELSE NatToStr(n)

\* ------------------------------------------------------- dicts and settings

\* d.get(key, default) for a dict d modelled as a function.
DictGet(d, key, default) == IF key \in DOMAIN d THEN d[key] ELSE default

\* `s or default` for a str s: the empty str is falsy.
StrOr(s, default) == IF s # <<>> THEN s ELSE default

\* `os.getenv(key) or default`: None (unset) and "" both give the default.
GetenvOr(e, key, default) == StrOr(DictGet(e, key, <<>>), default)

\* Mutant of must_env: the missing setting is reported but the run goes on.
must_env_NoExit(e, key) ==
    [ok |-> TRUE, v |-> Strip(GetenvOr(e, key, <<>>))]

\* Lines 47-52.  [ok |-> FALSE] stands for sys.exit(1).
must_env(e, key) ==
    LET v == Strip(GetenvOr(e, key, <<>>))
    IN  [ok |-> v # <<>>, v |-> v]

\* The values ADD_FILENAME_HEADER is compared with (line 119).
HeaderFlagTrue == {Lit(<<"1">>), Lit(<<"t", "r", "u", "e">>),
                   Lit(<<"y", "e", "s">>), Lit(<<"y">>)}

\* Line 119.
add_header_of(e) ==
    Lower(Strip(GetenvOr(e, "ADD_FILENAME_HEADER", Lit(<<"t", "r", "u", "e">>))))
        \in HeaderFlagTrue

\* Line 124.  `... or None`: None is modelled as the empty str; both are
\* falsy, so post_weblink leaves descriptionOverwrite out for either.
description_of(e) == clamp(Strip(GetenvOr(e, "DESCRIPTION", <<>>)), DESC_CAP)

\* -------------------------------------------------------------- rate_sleep

RATELIMIT_REMAINING ==
    Lit(<<"r", "a", "t", "e", "l", "i", "m", "i", "t", "-",
          "r", "e", "m", "a", "i", "n", "i", "n", "g">>)

RATELIMIT_RESET ==
    Lit(<<"r", "a", "t", "e", "l", "i", "m", "i", "t", "-",
          "r", "e", "s", "e", "t">>)

\* Line 63: {k.lower(): v for k, v in resp.headers.items()}.  resp.headers is
\* case-insensitive, so no two of its keys agree after lower().
LowerKeys(hd) ==
    [lk \in {Lower(k) : k \in DOMAIN hd} |->
        hd[CHOOSE k \in DOMAIN hd : Lower(k) = lk]]

\* Mutant of rate_sleep: when the limit is hit the reset value is slept as it
\* is, not the larger of it and the fallback.
rate_sleep_ResetOnly(resp, fallback_seconds) ==
    LET h == LowerKeys(resp.headers)
        one == Lit(<<"1">>)
        fb == IntToStr(fallback_seconds)
        rem == ParseInt(StrOr(DictGet(h, RATELIMIT_REMAINING, one), one))
        remaining == IF rem.ok THEN rem.val ELSE 1
        rst == ParseInt(StrOr(DictGet(h, RATELIMIT_RESET, fb), fb))
        reset_sec == IF rst.ok THEN rst.val ELSE fallback_seconds
    IN  IF remaining <= 0 THEN reset_sec ELSE fallback_seconds

\* Lines 61-78: the argument rate_sleep hands to time.sleep.
rate_sleep(resp, fallback_seconds) ==
    LET h == LowerKeys(resp.headers)
        one == Lit(<<"1">>)
        fb == IntToStr(fallback_seconds)
        rem == ParseInt(StrOr(DictGet(h, RATELIMIT_REMAINING, one), one))
        remaining == IF rem.ok THEN rem.val ELSE 1
        rst == ParseInt(StrOr(DictGet(h, RATELIMIT_RESET, fb), fb))
        reset_sec == IF rst.ok THEN rst.val ELSE fallback_seconds
    IN  IF remaining <= 0 THEN Max(reset_sec, fallback_seconds)
        ELSE fallback_seconds

\* time.sleep(secs) raises ValueError for a negative secs and sleeps otherwise.
SleepRaises(secs) == secs < 0

\* Line 172: Response.ok is False exactly for the statuses raise_for_status
\* raises for, 400..599.
ResponseOk(status) == ~(400 <= status /\ status < 600)

\* ------------------------------------------------------------ post_weblink

\* Line 166.
PLACEHOLDER_URL ==
    Lit(<<"h", "t", "t", "p", "s", ":", "/", "/", "w", "w", "w", ".",
          "g", "o", "o", "g", "l", "e", ".", "c", "o", "m">>)

\* Lines 94-104: the JSON payload; titleOverwrite and descriptionOverwrite are
\* present only when truthy (non-empty).  Tags are left out of the model.
Payload(space, url_value, title, md_text, descr) ==
    [k \in {"spaceId", "url", "mdText"}
           \cup (IF title # <<>> THEN {"titleOverwrite"} ELSE {})
           \cup (IF descr # <<>> THEN {"descriptionOverwrite"} ELSE {}) |->
        CASE k = "spaceId" -> space
          [] k = "url" -> url_value
          [] k = "mdText" -> md_text
          [] k = "titleOverwrite" -> title
          [] k = "descriptionOverwrite" -> descr]

\* ------------------------------------------------------------------- paths

\* p.stem (line 163): the name without its last suffix; a name whose only dot
\* is its first or its last character has no suffix.
Stem(name) ==
    LET pos == RFind(name, ".")
    IN  IF 1 < pos /\ pos < StrLen(name) THEN Take(name, pos - 1) ELSE name

\* Line 133: sorted(...) of the matched paths (all directly under the root, so
\* the order is that of the names).
RECURSIVE SortedPaths(_)
SortedPaths(S) ==
    IF S = {} THEN <<>>
    ELSE LET m == CHOOSE f \in S : \A g \in S \ {f} : StrLess(f.name, g.name)
         IN  <<m>> \o SortedPaths(S \ {m})

\* fs[:n] for a list fs and an int n (negative n counts from the end).
SliceTo(fs, n) ==
    IF n >= 0 THEN SubSeq(fs, 1, IF n < Len(fs) THEN n ELSE Len(fs))
    ELSE SubSeq(fs, 1, Max(0, Len(fs) + n))

\* Lines 134-135.
Truncate(fs, max_files) ==
    IF max_files # 0 /\ Len(fs) > max_files THEN SliceTo(fs, max_files) ELSE fs

\* Line 158: the text before the file name.
HeaderLine == Lit(<<"#", "#", "#", " ", "I", "m", "p", "o", "r", "t", "e", "d", ":", " ">>)

\* Mutant of BuildMdText: the body is clamped before the header is prepended.
BuildMdText_ClampFirst(name, body, with_header) ==
    IF with_header
    THEN Cat(Cat(Cat(HeaderLine, name), Lit(<<"\n", "\n">>)), clamp(body, MDTEXT_CAP))
    ELSE clamp(body, MDTEXT_CAP)

\* Mutant of BuildMdText: no blank line between the header and the content.
BuildMdText_NoBlankLine(name, body, with_header) ==
    clamp(IF with_header
          THEN Cat(Cat(Cat(HeaderLine, name), Lit(<<"\n">>)), body)
          ELSE body,
          MDTEXT_CAP)

\* Lines 156-160.
BuildMdText(name, body, with_header) ==
    clamp(IF with_header
          THEN Cat(Cat(Cat(HeaderLine, name), Lit(<<"\n", "\n">>)), body)
          ELSE body,
          MDTEXT_CAP)

\* ------------------------------------------------------------------- state

VARIABLES
    environ,      \* os.environ after load_dotenv(): setting name -> str
    disk,         \* the file system: existing root path -> the paths the glob matches
    server,       \* the outcomes a POST /save-weblink may have in this run
    pc,           \* where main() is: config, enumerate, loop, resp, done, exit, crash
    exit_status,  \* <<>> while running, <<n>> once the process has ended with status n
    space_id, vault_path, max_files, sleep_sec, add_header, description,
    files,        \* the list the for loop of line 141 iterates
    idx,          \* the position of that loop in files
    created, skipped,
    r,            \* the response of the last POST
    events        \* what the run has done so far, in order: read, post, resp, sleep, summary

envvars == <<environ, disk, server>>
cfgvars == <<space_id, vault_path, max_files, sleep_sec, add_header, description>>
loopvars == <<files, idx, created, skipped, r>>
vars == <<environ, disk, server, pc, exit_status, space_id, vault_path, max_files,
          sleep_sec, add_header, description, files, idx, created, skipped, r, events>>

NoPayload == [k \in {} |-> <<>>]

NoResponse == [err |-> FALSE, status |-> 0, headers |-> [k \in {} |-> <<>>]]

\* One observable effect: read_text of a path (line 143), a POST (line 106), a
\* response returned by it, a time.sleep that slept (lines 76, 78), the final
\* summary (line 188).
Event(type, name, payload, num) ==
    [type |-> type, name |-> name, payload |-> payload, num |-> num]

\* ------------------------------------------------------------------ actions

\* Lines 110-128: load the settings.  A missing required setting or a root that
\* does not exist is sys.exit(1); int() of a malformed MAX_FILES or
\* SLEEP_SECONDS raises ValueError, which nothing catches (exit status 1).
Configure ==
    /\ pc = "config"
    /\ LET tok == must_env(environ, "CAPACITIES_API_KEY")
           sp == must_env(environ, "SPACE_ID")
           vp == must_env(environ, "VAULT_PATH")
           mf == ParseInt(GetenvOr(environ, "MAX_FILES", Lit(<<"0">>)))
           ss == ParseInt(GetenvOr(environ, "SLEEP_SECONDS", Lit(<<"7">>)))
       IN  IF ~(tok.ok /\ sp.ok /\ vp.ok)
           THEN /\ pc' = "exit"
                /\ exit_status' = <<1>>
                /\ UNCHANGED cfgvars
           ELSE IF ~(mf.ok /\ ss.ok)
           THEN /\ pc' = "crash"
                /\ exit_status' = <<1>>
                /\ space_id' = sp.v
                /\ vault_path' = vp.v
                /\ max_files' = IF mf.ok THEN mf.val ELSE max_files
                /\ UNCHANGED <<sleep_sec, add_header, description>>
           ELSE /\ space_id' = sp.v
                /\ vault_path' = vp.v
                /\ max_files' = mf.val
                /\ sleep_sec' = ss.val
                /\ add_header' = add_header_of(environ)
                /\ description' = description_of(environ)
                /\ pc' = IF vp.v \in DOMAIN disk THEN "enumerate" ELSE "exit"
                /\ exit_status' = IF vp.v \in DOMAIN disk THEN <<>> ELSE <<1>>
    /\ UNCHANGED <<envvars, loopvars, events>>

\* Lines 130-139: enumerate, sort and cap the matched paths.
Enumerate ==
    /\ pc = "enumerate"
    /\ files' = Truncate(SortedPaths(disk[vault_path]), max_files)
    /\ created' = 0
    /\ skipped' = 0
    /\ idx' = 1
    /\ pc' = "loop"
    /\ UNCHANGED <<envvars, cfgvars, exit_status, r, events>>

\* Lines 141-169: one iteration up to the return of post_weblink.  An
\* unreadable or empty file is counted as skipped; otherwise the payload is
\* built and posted, and the POST either returns a response or raises (a
\* transport error, which nothing catches).
ProcessFile ==
    /\ pc = "loop"
    /\ idx <= Len(files)
    /\ LET p == files[idx]
           body == Strip(p.raw)
           md_text == BuildMdText(p.name, body, add_header)
           title == clamp(Stem(p.name), TITLE_CAP)
           payload == Payload(space_id, PLACEHOLDER_URL, title, md_text, description)
           evread == Event("read", p.name, NoPayload, 0)
           evpost == Event("post", p.name, payload, 0)
       IN  IF ~p.readable \/ body = <<>>
           THEN /\ skipped' = skipped + 1
                /\ idx' = idx + 1
                /\ events' = Append(events, evread)
                /\ UNCHANGED <<pc, exit_status, created, r>>
           ELSE \E reply \in server :
                   IF reply.err
                   THEN /\ pc' = "crash"
                        /\ exit_status' = <<1>>
                        /\ events' = events \o <<evread, evpost>>
                        /\ UNCHANGED <<idx, created, skipped, r>>
                   ELSE /\ pc' = "resp"
                        /\ r' = reply
                        /\ events' = events \o <<evread, evpost,
                                        Event("resp", p.name, NoPayload, reply.status)>>
                        /\ UNCHANGED <<exit_status, idx, created, skipped>>
    /\ UNCHANGED <<envvars, cfgvars, files>>

\* Mutant of HandleResponse: the error branch continues without rate_sleep.
HandleResponse_NoSleepOnError ==
    /\ pc = "resp"
    /\ created' = IF ResponseOk(r.status) THEN created + 1 ELSE created
    /\ LET wait == rate_sleep(r, sleep_sec)
       IN  IF ~ResponseOk(r.status)
           THEN /\ pc' = "loop"
                /\ idx' = idx + 1
                /\ UNCHANGED <<exit_status, events>>
           ELSE IF SleepRaises(wait)
           THEN /\ pc' = "crash"
                /\ exit_status' = <<1>>
                /\ UNCHANGED <<idx, events>>
           ELSE /\ pc' = "loop"
                /\ idx' = idx + 1
                /\ events' = Append(events, Event("sleep", files[idx].name, NoPayload, wait))
                /\ UNCHANGED exit_status
    /\ UNCHANGED <<envvars, cfgvars, files, skipped, r>>

\* Lines 170-186: count the response and throttle.  Both branches end in
\* rate_sleep(r, sleep_sec); time.sleep raises on a negative argument.
HandleResponse ==
    /\ pc = "resp"
    /\ created' = IF ResponseOk(r.status) THEN created + 1 ELSE created
    /\ LET wait == rate_sleep(r, sleep_sec)
       IN  IF SleepRaises(wait)
           THEN /\ pc' = "crash"
                /\ exit_status' = <<1>>
                /\ UNCHANGED <<idx, events>>
           ELSE /\ pc' = "loop"
                /\ idx' = idx + 1
                /\ events' = Append(events, Event("sleep", files[idx].name, NoPayload, wait))
                /\ UNCHANGED exit_status
    /\ UNCHANGED <<envvars, cfgvars, files, skipped, r>>

\* Line 188: the loop is exhausted; print the summary and return.
Summary ==
    /\ pc = "loop"
    /\ idx > Len(files)
    /\ pc' = "done"
    /\ exit_status' = <<0>>
    /\ events' = Append(events, Event("summary", <<>>, NoPayload, 0))
    /\ UNCHANGED <<envvars, cfgvars, loopvars>>

Next == Configure \/ Enumerate \/ ProcessFile \/ HandleResponse \/ Summary

\* ------------------------------------------------------------ initial states

\* The state when main() is entered, for an environment e, a file system d and
\* a server behaviour s.
Start(e, d, s) ==
    /\ environ = e
    /\ disk = d
    /\ server = s
    /\ pc = "config"
    /\ exit_status = <<>>
    /\ space_id = <<>>
    /\ vault_path = <<>>
    /\ max_files = 0
    /\ sleep_sec = 0
    /\ add_header = FALSE
    /\ description = <<>>
    /\ files = <<>>
    /\ idx = 0
    /\ created = 0
    /\ skipped = 0
    /\ r = NoResponse
    /\ events = <<>>

\* An optional setting or header: <<>> when unset, <<v>> when set to the str v.
Unset == <<>>

Set(v) == <<v>>

\* os.environ with the seven settings given as options.
MkEnv(tok, sp, vp, mf, ss, ah, de) ==
    LET o == [CAPACITIES_API_KEY |-> tok, SPACE_ID |-> sp, VAULT_PATH |-> vp,
              MAX_FILES |-> mf, SLEEP_SECONDS |-> ss,
              ADD_FILENAME_HEADER |-> ah, DESCRIPTION |-> de]
    IN  [k \in {k \in DOMAIN o : o[k] # Unset} |-> o[k][1]]

File(name, readable, raw) == [name |-> name, readable |-> readable, raw |-> raw]

\* A response with a status and the two rate limit headers under the given names.
Reply(status, remaining_key, remaining, reset_key, reset) ==
    LET o == <<remaining, reset>>
        ks == <<remaining_key, reset_key>>
    IN  [err |-> FALSE, status |-> status,
         headers |-> [k \in {ks[i] : i \in {i \in 1..2 : o[i] # Unset}} |->
                         o[CHOOSE i \in 1..2 : ks[i] = k][1]]]

TransportError == [err |-> TRUE, status |-> 0, headers |-> [k \in {} |-> <<>>]]

\* Header names as a server sends them.
H_REMAINING == Lit(<<"R", "a", "t", "e", "L", "i", "m", "i", "t", "-",
                     "R", "e", "m", "a", "i", "n", "i", "n", "g">>)

H_RESET == Lit(<<"R", "a", "t", "e", "L", "i", "m", "i", "t", "-",
                 "R", "e", "s", "e", "t">>)

VaultDir == Lit(<<"/", "v">>)

MdName(stem) == Cat(stem, Lit(<<".", "m", "d">>))

\* The directories of at most MaxMatches matches drawn from a pool of paths.
Dirs(pool) == {S \in SUBSET pool : Cardinality(S) <= MaxMatches}

GoodEnv(mf, ss, ah, de) ==
    MkEnv(Set(Lit(<<"t", "o", "k">>)), Set(Lit(<<"s", "p">>)), Set(VaultDir), mf, ss, ah, de)

\* ------------------------------------------- the driver loop (Spec)

LoopFiles ==
    { File(MdName(Lit(<<"a">>)), TRUE, Lit(<<"x">>)),
      File(MdName(Lit(<<"b">>)), TRUE, Lit(<<" ", "y", " ", "z", "\n">>)),
      File(MdName(Lit(<<"B">>)), TRUE, Lit(<<"w">>)),
      File(MdName(Lit(<<"c">>)), TRUE, Lit(<<" ", "\n", "\t">>)),
      File(MdName(Lit(<<"d">>)), TRUE, <<>>),
      File(MdName(Lit(<<"e">>)), FALSE, <<>>) }

LoopReplies ==
    { Reply(200, H_REMAINING, Unset, H_RESET, Unset),
      Reply(201, H_REMAINING, Set(Lit(<<"0">>)), H_RESET, Set(Lit(<<"3", "0">>))),
      Reply(304, H_REMAINING, Unset, H_RESET, Unset),
      Reply(404, RATELIMIT_REMAINING, Set(Lit(<<"0">>)), RATELIMIT_RESET, Set(Lit(<<"2">>))),
      Reply(500, H_REMAINING, Set(Lit(<<"5">>)), H_RESET, Unset),
      TransportError }

LoopEnvs ==
    { GoodEnv(mf, ss, Unset, Unset) :
        mf \in {Unset, Set(Lit(<<"2">>))},
        ss \in {Unset, Set(Lit(<<"0">>)), Set(Lit(<<"-", "1">>))} }

Init ==
    \E e \in LoopEnvs, m \in Dirs(LoopFiles) :
        Start(e, [q \in {VaultDir} |-> m], LoopReplies)

Spec == Init /\ [][Next]_vars

\* ------------------------------------------------ the rate limiter (SpecRate)

RateRemaining ==
    { Unset, Set(<<>>), Set(Lit(<<"0">>)), Set(Lit(<<"-", "1">>)), Set(Lit(<<"5">>)),
      Set(Lit(<<"x">>)), Set(Lit(<<" ", "0", " ">>)), Set(Lit(<<"0", ".", "0">>)),
      Set(Lit(<<"1", "_", "0">>)) }

RateReset ==
    { Unset, Set(<<>>), Set(Lit(<<"3", "0">>)), Set(Lit(<<"2">>)), Set(Lit(<<"x">>)),
      Set(Lit(<<"-", "5">>)) }

RateReplies ==
    { Reply(st, ks[1], rem, ks[2], rst) :
        st \in {200, 503},
        ks \in {<<H_REMAINING, H_RESET>>, <<RATELIMIT_REMAINING, RATELIMIT_RESET>>},
        rem \in RateRemaining,
        rst \in RateReset }

RateEnvs ==
    { GoodEnv(Unset, ss, Unset, Unset) :
        ss \in {Unset, Set(Lit(<<"0">>)), Set(Lit(<<"3">>)), Set(Lit(<<"-", "1">>)),
                Set(Lit(<<"4", "0">>))} }

InitRate ==
    \E e \in RateEnvs :
        Start(e, [q \in {VaultDir} |-> {File(MdName(Lit(<<"a">>)), TRUE, Lit(<<"x">>))}],
              RateReplies)

SpecRate == InitRate /\ [][Next]_vars

\* --------------------------------------- the configuration loader (SpecConfig)

Blank == Lit(<<" ", " ">>)

ConfigEnvs ==
    { MkEnv(tok, sp, vp, mf, ss, Unset, Unset) :
        tok \in {Unset, Set(Blank), Set(Lit(<<"t", "o", "k">>))},
        sp \in {Unset, Set(<<>>), Set(Lit(<<"s", "p">>))},
        vp \in {Unset, Set(Blank), Set(VaultDir), Set(Lit(<<" ", "/", "v", " ">>)),
                Set(Lit(<<"/", "x">>))},
        mf \in {Unset, Set(<<>>), Set(Lit(<<"2">>)), Set(Lit(<<"a", "b", "c">>)),
                Set(Lit(<<"2", ".", "5">>))},
        ss \in {Unset, Set(Lit(<<" ", "3">>)), Set(Lit(<<"7", "s">>))} }

ConfigFiles ==
    { File(MdName(Lit(<<"a">>)), TRUE, Lit(<<"x">>)),
      File(MdName(Lit(<<"c">>)), TRUE, Lit(<<" ", "\n">>)) }

ConfigReplies ==
    { Reply(200, H_REMAINING, Unset, H_RESET, Unset),
      Reply(404, H_REMAINING, Unset, H_RESET, Unset) }

InitConfig ==
    \E e \in ConfigEnvs :
        Start(e, [q \in {VaultDir} |-> ConfigFiles], ConfigReplies)

SpecConfig == InitConfig /\ [][Next]_vars

\* ------------------------------------------- the file enumerator (SpecEnum)

EnumFiles ==
    { File(MdName(Lit(cs)), TRUE, Lit(<<"x">>)) :
        cs \in {<<"a">>, <<"a", "b">>, <<"b">>, <<"B">>} }

EnumEnvs ==
    { GoodEnv(mf, Set(Lit(<<"0">>)), Unset, Unset) :
        mf \in {Unset, Set(<<>>), Set(Lit(<<"0">>)), Set(Lit(<<"1">>)), Set(Lit(<<"2">>)),
                Set(Lit(<<"5">>)), Set(Lit(<<"-", "1">>)), Set(Lit(<<"-", "2">>))} }

InitEnum ==
    \E e \in EnumEnvs, m \in Dirs(EnumFiles) :
        Start(e, [q \in {VaultDir} |-> m],
              {Reply(200, H_REMAINING, Unset, H_RESET, Unset)})

SpecEnum == InitEnum /\ [][Next]_vars

\* --------------------------------------------- the payload builder (SpecBody)

\* File contents around the body cap.  Those of OverCap characters are the
\* 200,010-character files of the end-to-end property.
OverCap == MDTEXT_CAP + 10

BodyFiles ==
    { File(MdName(Lit(<<"a">>)), TRUE, Rep("a", OverCap)),
      File(MdName(Lit(<<"b">>)), TRUE, Cat(Rep(" ", 10), Rep("a", MDTEXT_CAP))),
      File(MdName(Lit(<<"c">>)), TRUE,
           Cat(Cat(Rep("\n", 100), Rep("a", OverCap - 200)), Rep(" ", 100))),
      File(MdName(Lit(<<"d">>)), TRUE, Rep(" ", OverCap)),
      File(MdName(Lit(<<"e">>)), TRUE, Lit(<<" ", "a", " ", "b", "\n">>)),
      File(MdName(Rep("n", TITLE_CAP + 100)), TRUE, Rep("a", MDTEXT_CAP)),
      File(Lit(<<".", "m", "d">>), TRUE,
           Cat(Cat(Rep(" ", 5), Rep("a", OverCap - 6)), Lit(<<"b">>))),
      File(Lit(<<"a", ".", "b", ".", "m", "d">>), TRUE, Rep("a", MDTEXT_CAP - 15)) }

BodyEnvs ==
    { GoodEnv(Unset, Set(Lit(<<"0">>)), ah, de) :
        ah \in {Unset, Set(Lit(<<" ", "Y", "e", "s", " ">>)), Set(Lit(<<"T", "R", "U", "E">>)),
                Set(Lit(<<"f", "a", "l", "s", "e">>)), Set(Lit(<<"0">>))},
        de \in {Unset, Set(Blank), Set(Lit(<<" ", "h", "i", " ">>)),
                Set(Rep("d", DESC_CAP)),
                Set(Cat(Cat(Rep(" ", 3), Rep("d", DESC_CAP + 1)), Rep("\n", 2)))} }

InitBody ==
    \E e \in BodyEnvs, m \in Dirs(BodyFiles) :
        Start(e, [q \in {VaultDir} |-> m],
              {Reply(200, H_REMAINING, Unset, H_RESET, Unset)})

SpecBody == InitBody /\ [][Next]_vars

\* ----------------------------------------------------------------- claims

\* The positions of the events of one type.
EventsOf(type) == {i \in 1..Len(events) : events[i].type = type}

\* A str with no character other than whitespace (the empty str included).
IsBlank(s) == \A i \in 1..Len(s) : s[i][1] \in Whitespace

\* C2: a step of the driver loop on a readable file whose content is empty or
\* only whitespace reads the file and nothing else (no POST, no response, no
\* sleep), adds exactly one to skipped, leaves created alone and moves the loop
\* to the next file.
C2_BlankFileIsSkipped ==
    [][(pc = "loop" /\ idx <= Len(files)
          /\ files[idx].readable /\ IsBlank(files[idx].raw))
       => /\ skipped' = skipped + 1
          /\ created' = created
          /\ idx' = idx + 1
          /\ pc' = "loop"
          /\ Len(events') = Len(events) + 1
          /\ events'[Len(events')].type = "read"]_vars

\* C2 witness: a run that ended normally after skipping a whitespace-only file
\* and posting another one.
C2_Witness ==
    /\ pc = "done"
    /\ created > 0
    /\ \E i \in 1..Len(files) :
          /\ files[i].readable /\ files[i].raw # <<>> /\ IsBlank(files[i].raw)
          /\ \A j \in EventsOf("post") \cup EventsOf("sleep") :
                events[j].name # files[i].name

Is2xx(status) == 200 <= status /\ status < 300

\* C5 as claimed: whenever no response is waiting to be handled, created is the
\* number of 2xx responses received and skipped the number of files read that
\* were unreadable or blank, and every file read and not skipped was posted
\* exactly once.
C5_CreatedCounts2xx ==
    pc \in {"loop", "done"} =>
        /\ created = Cardinality({i \in EventsOf("resp") : Is2xx(events[i].num)})
        /\ skipped + Cardinality(EventsOf("post")) = Cardinality(EventsOf("read"))
        /\ \A i \in EventsOf("post") :
              \A j \in EventsOf("post") : events[i].name = events[j].name => i = j

HeaderValues(resp, lname) ==
    {resp.headers[k] : k \in {k \in DOMAIN resp.headers : Lower(k) = lname}}

\* The integer a header stands for: dflt when the header is absent, empty or
\* not an integer.
HeaderInt(resp, lname, dflt) ==
    LET vs == {ParseInt(v) : v \in HeaderValues(resp, lname) \ {<<>>}}
    IN  IF \E v \in vs : v.ok THEN (CHOOSE v \in vs : v.ok).val ELSE dflt

\* The duration C1 gives for a response and a fallback.
C1_Duration(resp, fallback) ==
    LET remaining == HeaderInt(resp, RATELIMIT_REMAINING, 1)
        reset == HeaderInt(resp, RATELIMIT_RESET, fallback)
    IN  IF remaining <= 0 THEN Max(reset, fallback) ELSE fallback

\* C1 as claimed: handling a response sleeps exactly once, for the duration
\* C1 gives, whatever the response and the configured fallback.
C1_SleepsOnceForDuration ==
    [][pc = "resp" =>
          events' = Append(events, Event("sleep", files[idx].name, NoPayload,
                                         C1_Duration(r, sleep_sec)))]_vars

\* C1 amended: handling a response computes the duration C1 gives; when it is
\* not negative the run sleeps exactly once, for that duration, and when it is
\* negative (a negative fallback) time.sleep raises, nothing is slept and the
\* run ends.
C1_SleepsOnceUnlessNegative ==
    [][pc = "resp" =>
          LET d == C1_Duration(r, sleep_sec)
          IN  IF d >= 0
              THEN events' = Append(events, Event("sleep", files[idx].name, NoPayload, d))
              ELSE events' = events /\ pc' = "crash" /\ exit_status' = <<1>>]_vars

\* C1 witness: the limit was hit (remaining " 0 " under a mixed-case header
\* name) and the run slept the reset value 30, larger than the fallback 3.
C1_Witness ==
    /\ pc = "loop"
    /\ sleep_sec = 3
    /\ H_REMAINING \in DOMAIN r.headers
    /\ r.headers[H_REMAINING] = Lit(<<" ", "0", " ">>)
    /\ events[Len(events)].type = "sleep"
    /\ events[Len(events)].num = 30

\* A required setting that is missing or blank.
Missing(key) == key \notin DOMAIN environ \/ IsBlank(environ[key])

\* The root path the run is given does not exist.
RootAbsent == ~Missing("VAULT_PATH") /\ Strip(environ["VAULT_PATH"]) \notin DOMAIN disk

\* C6: when a required setting is missing or blank, or the root does not exist,
\* the run never gets past the configuration: once configuration has run the
\* process has ended with status 1, and it has read no file, posted nothing,
\* slept never and printed no summary.
C6_FatalConfiguration ==
    (Missing("CAPACITIES_API_KEY") \/ Missing("SPACE_ID") \/ Missing("VAULT_PATH")
        \/ RootAbsent)
    => /\ pc \in {"config", "exit", "crash"}
       /\ pc # "config" => exit_status = <<1>>
       /\ events = <<>>
       /\ files = <<>>

\* C6 witness: every required setting is present, the root does not exist, and
\* the run has ended with sys.exit(1).
C6_Witness ==
    /\ pc = "exit"
    /\ exit_status = <<1>>
    /\ RootAbsent
    /\ ~Missing("CAPACITIES_API_KEY") /\ ~Missing("SPACE_ID")

\* The value a numeric setting has according to C7: its integer when it is one,
\* the default when it is unset, empty or not an integer.
NumericSetting(key, dflt) ==
    IF key \in DOMAIN environ /\ environ[key] # <<>> /\ ParseInt(environ[key]).ok
    THEN ParseInt(environ[key]).val
    ELSE dflt

Malformed(key) ==
    key \in DOMAIN environ /\ environ[key] # <<>> /\ ~ParseInt(environ[key]).ok

\* C7 as claimed: with the required settings present and the root existing, a
\* MAX_FILES or SLEEP_SECONDS that is not an integer does not end the run: the
\* loader goes on with 0 and 7 as the respective defaults.
C7_MalformedNumberUsesDefault ==
    (/\ ~Missing("CAPACITIES_API_KEY") /\ ~Missing("SPACE_ID")
     /\ ~Missing("VAULT_PATH") /\ ~RootAbsent
     /\ Malformed("MAX_FILES") \/ Malformed("SLEEP_SECONDS")
     /\ pc # "config")
    => /\ pc \notin {"crash", "exit"}
       /\ max_files = NumericSetting("MAX_FILES", 0)
       /\ sleep_sec = NumericSetting("SLEEP_SECONDS", 7)

\* fs lists, in ascending order of name, the n smallest members of S.
IsSortedPrefix(fs, S, n) ==
    /\ Len(fs) = n
    /\ \A i \in 1..Len(fs) : fs[i] \in S
    /\ \A i \in 1..Len(fs) : \A j \in 1..Len(fs) :
          i < j => StrLess(fs[i].name, fs[j].name)
    /\ \A g \in S : (\A i \in 1..Len(fs) : fs[i] # g) =>
          \A i \in 1..Len(fs) : StrLess(fs[i].name, g.name)

\* C4 as claimed: the list the loop iterates is the first max_files entries of
\* the sorted matches when max_files > 0 and there are more matches than that,
\* and all the matches in sorted order otherwise (max_files <= 0 included); and
\* a finished run has read exactly that list, in order.
C4_ProcessedFiles ==
    pc \in {"loop", "resp", "done"} =>
        LET S == disk[vault_path]
            n == IF max_files > 0 /\ Cardinality(S) > max_files
                 THEN max_files ELSE Cardinality(S)
        IN  /\ IsSortedPrefix(files, S, n)
            /\ pc = "done" =>
                  /\ Cardinality(EventsOf("read")) = n
                  /\ \A i \in EventsOf("read") : \A j \in EventsOf("read") :
                        i < j => StrLess(events[i].name, events[j].name)

\* t is u when u has at most cap characters, and otherwise has exactly cap
\* characters: the first cap-1 characters of u followed by one ellipsis.
IsCapped(t, u, cap) ==
    /\ StrLen(t) <= cap
    /\ IF StrLen(u) > cap
       THEN /\ StrLen(t) = cap
            /\ CharAt(t, cap) = Ellipsis
            /\ Take(t, cap - 1) = Take(u, cap - 1)
       ELSE t = u

\* The matched file of a given name.
FileNamed(name) == CHOOSE f \in disk[vault_path] : f.name = name

\* The provenance header of a file: "### Imported: <name>", then a blank line.
ProvenanceHeader(name) ==
    Cat(Lit(<<"#", "#", "#", " ", "I", "m", "p", "o", "r", "t", "e", "d", ":", " ">>),
        Cat(name, Lit(<<"\n", "\n">>)))

\* The body of a file before the cap: its content without leading and trailing
\* whitespace, behind the provenance header when the option is on.
UncutBody(f) ==
    IF add_header THEN Cat(ProvenanceHeader(f.name), Strip(f.raw)) ELSE Strip(f.raw)

UncutDescription == Strip(GetenvOr(environ, "DESCRIPTION", <<>>))

\* C3: in every POST, mdText, titleOverwrite and descriptionOverwrite are the
\* untruncated body, title and description cut to 200,000, 500 and 1,000
\* characters: unchanged when within the cap, and otherwise the first cap-1
\* characters followed by one ellipsis (an empty title or description is not
\* sent at all).
C3_FieldsAreCapped ==
    \A i \in EventsOf("post") :
        LET pl == events[i].payload
            f == FileNamed(events[i].name)
        IN  /\ IsCapped(pl["mdText"], UncutBody(f), MDTEXT_CAP)
            /\ "titleOverwrite" \in DOMAIN pl
            /\ IsCapped(pl["titleOverwrite"], Stem(f.name), TITLE_CAP)
            /\ "descriptionOverwrite" \in DOMAIN pl <=> UncutDescription # <<>>
            /\ "descriptionOverwrite" \in DOMAIN pl =>
                  IsCapped(pl["descriptionOverwrite"], UncutDescription, DESC_CAP)

\* C3 witness: a POST whose three fields were all cut to their caps.
C3_Witness ==
    \E i \in EventsOf("post") :
        LET pl == events[i].payload
        IN  /\ StrLen(UncutBody(FileNamed(events[i].name))) > MDTEXT_CAP
            /\ StrLen(pl["mdText"]) = MDTEXT_CAP
            /\ StrLen(pl["titleOverwrite"]) = TITLE_CAP
            /\ CharAt(pl["titleOverwrite"], TITLE_CAP) = Ellipsis
            /\ "descriptionOverwrite" \in DOMAIN pl
            /\ StrLen(pl["descriptionOverwrite"]) = DESC_CAP
            /\ CharAt(pl["descriptionOverwrite"], DESC_CAP) = Ellipsis

\* The POST of the file at position i of the list has a body of exactly 200,000
\* characters ending in the ellipsis.
PostedAtCap(i) ==
    \E k \in EventsOf("post") :
        /\ events[k].name = files[i].name
        /\ StrLen(events[k].payload["mdText"]) = MDTEXT_CAP
        /\ CharAt(events[k].payload["mdText"], MDTEXT_CAP) = Ellipsis

\* C8 as claimed: every file of exactly 200,010 characters the loop has dealt
\* with was posted with a body of exactly 200,000 characters ending in the
\* ellipsis, whatever its characters and the header option.
C8_LongFileIsCut ==
    \A i \in 1..Len(files) :
        (i < idx /\ StrLen(files[i].raw) = 200010) => PostedAtCap(i)

\* C8 amended: the same for every file of exactly 200,010 characters whose
\* content without leading and trailing whitespace, plus the provenance header
\* when the option is on, is longer than 200,000 characters.
C8_LongBodyIsCut ==
    \A i \in 1..Len(files) :
        (/\ i < idx
         /\ StrLen(files[i].raw) = 200010
         /\ StrLen(Strip(files[i].raw))
               + (IF add_header THEN StrLen(ProvenanceHeader(files[i].name)) ELSE 0)
               > MDTEXT_CAP)
        => PostedAtCap(i)

\* C8 witness: a 200,010-character file with leading whitespace was dealt with,
\* header option off, and its body went out cut to the cap.
C8_Witness ==
    /\ ~add_header
    /\ \E i \in 1..Len(files) :
          /\ i < idx
          /\ StrLen(files[i].raw) = 200010
          /\ files[i].raw[1][1] \in Whitespace
          /\ PostedAtCap(i)

\* t begins with the characters of u.
StartsWith(t, u) == StrLen(t) >= StrLen(u) /\ Take(t, StrLen(u)) = u

\* C9 as claimed: with the header option on, every body sent is the provenance
\* header followed by the original file content, cut only by the body cap; with
\* the option off no body sent begins with the header.
C9_HeaderThenOriginalContent ==
    \A i \in EventsOf("post") :
        LET f == FileNamed(events[i].name)
            md == events[i].payload["mdText"]
        IN  IF add_header
            THEN IsCapped(md, Cat(ProvenanceHeader(f.name), f.raw), MDTEXT_CAP)
            ELSE ~StartsWith(md, ProvenanceHeader(f.name))

\* C9 amended: with the header option on, every body sent is the provenance
\* header followed by the file content without its leading and trailing
\* whitespace, cut only by the body cap; with the option off no body sent
\* begins with the header.
C9_HeaderThenStrippedContent ==
    \A i \in EventsOf("post") :
        LET f == FileNamed(events[i].name)
            md == events[i].payload["mdText"]
        IN  IF add_header
            THEN IsCapped(md, Cat(ProvenanceHeader(f.name), Strip(f.raw)), MDTEXT_CAP)
            ELSE ~StartsWith(md, ProvenanceHeader(f.name))

\* C9 witness: header option on (set as " Yes "), a file with leading and
\* trailing whitespace, and a body that begins with its provenance header.
C9_Witness ==
    /\ add_header
    /\ "ADD_FILENAME_HEADER" \in DOMAIN environ
    /\ \E i \in EventsOf("post") :
          /\ FileNamed(events[i].name).raw = Lit(<<" ", "a", " ", "b", "\n">>)
          /\ StartsWith(events[i].payload["mdText"], ProvenanceHeader(events[i].name))
          /\ StrLen(events[i].payload["mdText"]) < MDTEXT_CAP

====
